---- MODULE Spec2Model ----
(***************************************************************************)
(* Model of ImageSelector (src/image_selector.py): the multi-criteria      *)
(* candidate selector with its memoization cache.                          *)
(*                                                                         *)
(* Numbers.  The selector computes with floats in [0,1]; the model uses    *)
(* exact fixed-point integers:                                             *)
(*   - a metric, relevance or confidence value v stands for v/10;          *)
(*   - a strategy weight w stands for w/10;                                *)
(*   - a cost c stands for c/100 (cents);                                  *)
(*   - the composite quality score and the component scores are in 1/200;  *)
(*   - the context bonus is in 1/30;                                       *)
(*   - a final score s stands for s/One, One = 200*10*10*30;               *)
(*   - a diversity penalty p stands for p/PenaltyOne, PenaltyOne = 120.    *)
(* Text.  A string is a sequence of one-character strings, so that         *)
(* lower(), split(), `in` and the f-string of the cache key are computed.  *)
(* A candidate is passed by reference: a candidate list is a sequence of   *)
(* indices into Pool, the caller's candidate objects.                      *)
(***************************************************************************)
EXTENDS Integers, Sequences, FiniteSets, TLC

\* ------------------------------------------------------------------ bounds
\* Longest candidate list a caller passes.
MaxLen == 3
\* Largest count a caller asks for (the smallest is -1).
MaxCount == 3
\* Number of select_best calls made on one selector in the cache specification.
MaxCalls == 2

\* ------------------------------------------------------------------- units
One == 200 * 10 * 10 * 30
PenaltyOne == 12 * 10
PenaltyScale == PenaltyOne * 10

Min(a, b) == IF a <= b THEN a ELSE b
Max(a, b) == IF a >= b THEN a ELSE b

\* -------------------------------------------------------------------- text
\* The characters the model's strings are made of, in code-point order.
Alphabet ==
  << " ", "'", ",", "0", "1", "2", "3", "4", "5", "6", "7", "8", "9",
     "A", "B", "C", "D", "E", "F", "G", "H", "I", "J", "K", "L", "M",
     "N", "O", "P", "Q", "R", "S", "T", "U", "V", "W", "X", "Y", "Z",
     "[", "]", "_",
     "a", "b", "c", "d", "e", "f", "g", "h", "i", "j", "k", "l", "m",
     "n", "o", "p", "q", "r", "s", "t", "u", "v", "w", "x", "y", "z" >>
UpperCase ==
  << "A", "B", "C", "D", "E", "F", "G", "H", "I", "J", "K", "L", "M",
     "N", "O", "P", "Q", "R", "S", "T", "U", "V", "W", "X", "Y", "Z" >>
LowerCase ==
  << "a", "b", "c", "d", "e", "f", "g", "h", "i", "j", "k", "l", "m",
     "n", "o", "p", "q", "r", "s", "t", "u", "v", "w", "x", "y", "z" >>

Ord(ch) == CHOOSE i \in DOMAIN Alphabet : Alphabet[i] = ch

\* str.lower(), one character.
LowerChar(ch) ==
  IF \E i \in DOMAIN UpperCase : UpperCase[i] = ch
  THEN LowerCase[CHOOSE i \in DOMAIN UpperCase : UpperCase[i] = ch]
  ELSE ch

\* str.lower()
Lower(s) == [i \in 1..Len(s) |-> LowerChar(s[i])]

\* str.split(): the maximal runs of non-blank characters, in order.
RECURSIVE SplitFrom(_, _, _)
SplitFrom(s, i, word) ==
  IF i > Len(s)
  THEN IF word = <<>> THEN <<>> ELSE <<word>>
  ELSE IF s[i] = " "
       THEN (IF word = <<>> THEN <<>> ELSE <<word>>) \o SplitFrom(s, i + 1, <<>>)
       ELSE SplitFrom(s, i + 1, Append(word, s[i]))
Split(s) == SplitFrom(s, 1, <<>>)

\* `word in text` on strings: word occurs as a substring of text.
Contains(word, text) ==
  \E i \in 0..(Len(text) - Len(word)) : SubSeq(text, i + 1, i + Len(word)) = word

\* s < t in the order sorted() uses on strings.
RECURSIVE StrLess(_, _)
StrLess(s, t) ==
  IF t = <<>> THEN FALSE
  ELSE IF s = <<>> THEN TRUE
  ELSE IF s[1] = t[1] THEN StrLess(Tail(s), Tail(t))
  ELSE Ord(s[1]) < Ord(t[1])

\* sorted(list of strings): a stable insertion sort, ascending.
RECURSIVE InsertStr(_, _)
InsertStr(sorted, s) ==
  IF sorted = <<>> THEN <<s>>
  ELSE IF StrLess(s, sorted[1]) THEN <<s>> \o sorted
  ELSE <<sorted[1]>> \o InsertStr(Tail(sorted), s)
RECURSIVE SortedStrs(_)
SortedStrs(l) ==
  IF l = <<>> THEN <<>> ELSE InsertStr(SortedStrs(SubSeq(l, 1, Len(l) - 1)), l[Len(l)])

\* str(n) for an integer n >= 0.
Digits == << "0", "1", "2", "3", "4", "5", "6", "7", "8", "9" >>
RECURSIVE StrInt(_)
StrInt(n) == IF n < 10 THEN <<Digits[n + 1]>> ELSE StrInt(n \div 10) \o <<Digits[(n % 10) + 1]>>

\* repr(list of strings), for strings that hold no quote or backslash.
RECURSIVE ReprItems(_)
ReprItems(l) ==
  IF l = <<>> THEN <<>>
  ELSE <<"'">> \o l[1] \o <<"'">>
       \o (IF Len(l) > 1 THEN <<",", " ">> ELSE <<>>) \o ReprItems(Tail(l))
ReprList(l) == <<"[">> \o ReprItems(l) \o <<"]">>

\* An Optional[str]: None, or a string.
NoneQuery == [is_none |-> TRUE, text |-> <<>>]
Str(s) == [is_none |-> FALSE, text |-> s]
\* The f-string's rendering of an Optional[str].
FormatOptional(q) == IF q.is_none THEN <<"N", "o", "n", "e">> ELSE q.text
\* Truthiness of an Optional[str].
Truthy(q) == ~q.is_none /\ q.text # <<>>

\* ------------------------------------------------------------- strategies
QUALITY_FIRST == "quality_first"
RELEVANCE_FIRST == "relevance_first"
BALANCED == "balanced"
DIVERSITY_FIRST == "diversity_first"
COST_OPTIMIZED == "cost_optimized"
SelectionStrategy ==
  {QUALITY_FIRST, RELEVANCE_FIRST, BALANCED, DIVERSITY_FIRST, COST_OPTIMIZED}

\* strategy.value as text.
StrategyValue(strategy) ==
  CASE strategy = QUALITY_FIRST ->
         <<"q","u","a","l","i","t","y","_","f","i","r","s","t">>
    [] strategy = RELEVANCE_FIRST ->
         <<"r","e","l","e","v","a","n","c","e","_","f","i","r","s","t">>
    [] strategy = BALANCED ->
         <<"b","a","l","a","n","c","e","d">>
    [] strategy = DIVERSITY_FIRST ->
         <<"d","i","v","e","r","s","i","t","y","_","f","i","r","s","t">>
    [] strategy = COST_OPTIMIZED ->
         <<"c","o","s","t","_","o","p","t","i","m","i","z","e","d">>

\* -------------------------------------------------------------- data model
\* SelectionCriteria: the four weights (tenths), the hard-filter minimums
\* (tenths), the maximum cost (cents) and the excluded scene types.
DefaultCriteria ==
  [ quality_weight |-> 4, relevance_weight |-> 3, diversity_weight |-> 2,
    cost_weight |-> 1, min_quality_score |-> 6, min_relevance_score |-> 5,
    max_cost_per_image |-> 10, exclude_scene_types |-> <<>> ]

\* Relative weights that are not normalized to 1, stricter minimums and an
\* excluded scene type.
HeavyCriteria ==
  [ quality_weight |-> 10, relevance_weight |-> 10, diversity_weight |-> 20,
    cost_weight |-> 10, min_quality_score |-> 7, min_relevance_score |-> 5,
    max_cost_per_image |-> 10, exclude_scene_types |-> << <<"i", "n">> >> ]

\* The default criteria with a maximum cost of zero.
FreeOnlyCriteria == [DefaultCriteria EXCEPT !.max_cost_per_image = 0]

CriteriaSet == {DefaultCriteria, HeavyCriteria, FreeOnlyCriteria}

\* ImageCandidate with its ComprehensiveAnalysis and QualityMetrics, flattened
\* to the fields the selector reads.
Candidate(url, title, description, objects, scene, colors, q, rel, conf, cost) ==
  [ image_url |-> url, title |-> title, description |-> description,
    objects |-> objects, scene_type |-> scene, colors |-> colors,
    overall_score |-> q[1], composition_score |-> q[2],
    technical_quality |-> q[3], clarity_score |-> q[4],
    relevance_score |-> rel, confidence_score |-> conf, cost_estimate |-> cost ]

\* The caller's candidate objects.
\*  1, 2: equal scores without a query (a tie); they differ in URL, in the case
\*        of the scene type and in the title.
\*  3:    a mid-ranked candidate of another scene, sharing an object and a
\*        colour with 1 and 2.
\*  4:    exactly on the default minimums and on the default maximum cost.
\*  5:    a second analysis of the image of 1 (same URL), ranked low.
\*  6:    candidate 2 with another URL, scene type, object and colour: it has
\*        the scores of 1 and 2 and shares nothing with them.
\*  7:    every metric exactly 0.8.
Pool ==
  << Candidate(<<"u", "1">>, <<"C", "a", "t">>, <<"a", " ", "c", "a", "t">>,
               << <<"c", "a", "t">> >>, <<"i", "n">>, << <<"r", "e", "d">> >>,
               <<9, 9, 9, 9>>, 9, 9, 0),
     Candidate(<<"u", "2">>, <<"N", "o", "n", "e">>, <<"a", " ", "c", "a", "t">>,
               << <<"C", "a", "t">> >>, <<"I", "N">>, << <<"R", "e", "d">> >>,
               <<9, 9, 9, 9>>, 9, 9, 0),
     Candidate(<<"u", "3">>, <<"c", "a", "t", " ", "d", "o", "g">>,
               <<"d", "o", "g", " ", "a", "n", "d", " ", "c", "a", "t">>,
               << <<"d", "o", "g">>, <<"c", "a", "t">>, <<"c", "a", "t", "s">> >>,
               <<"o", "u", "t">>, << <<"r", "e", "d">>, <<"b", "l", "u", "e">> >>,
               <<8, 7, 7, 8>>, 8, 10, 5),
     Candidate(<<"u", "4">>, <<>>, <<>>, <<>>, <<"o", "u", "t">>, <<>>,
               <<6, 6, 6, 6>>, 5, 10, 10),
     Candidate(<<"u", "1">>, <<"D", "o", "g">>, <<"a", " ", "d", "o", "g">>,
               << <<"d", "o", "g">> >>, <<"O", "u", "t">>, << <<"b", "l", "u", "e">> >>,
               <<7, 7, 7, 7>>, 6, 5, 5),
     Candidate(<<"u", "6">>, <<"N", "o", "n", "e">>, <<"a", " ", "c", "a", "t">>,
               << <<"b", "i", "r", "d">> >>, <<"s", "k", "y">>,
               << <<"g", "r", "e", "e", "n">> >>,
               <<9, 9, 9, 9>>, 9, 9, 0),
     Candidate(<<"u", "7">>, <<"F", "i", "s", "h">>, <<"a", " ", "f", "i", "s", "h">>,
               << <<"f", "i", "s", "h">> >>, <<"l", "a", "b">>,
               << <<"g", "r", "e", "y">> >>,
               <<8, 8, 8, 8>>, 8, 8, 5) >>

Refs == DOMAIN Pool

\* The queries a caller passes: none, the empty string, a blank string, and
\* two words, one of them capitalized.
Queries ==
  { NoneQuery, Str(<<>>), Str(<<" ">>), Str(<<"C", "a", "t", " ", "d", "o", "g">>) }
\* The queries of the cache specification: none, and the string the f-string
\* of the cache key prints for none.
CacheQueries == {NoneQuery, Str(<<"N", "o", "n", "e">>)}

\* The set a Python list of strings turns into under set(x.lower() for x in l).
LowerSet(l) == {Lower(l[i]) : i \in DOMAIN l}

\* ------------------------------------------------------------------- state
\* criteria:        self.criteria of the selector.
\* selection_cache: self.selection_cache, a dict from cache key to result.
\* last:            history: the last operation on the selector, what it was
\*                  given, how it ended and the cache as it found it; result
\*                  is what select_best returned most recently.
\* mark:            history: one earlier select_best call, picked arbitrarily,
\*                  to compare later calls with.
\* calls:           the number of select_best calls made so far.
\* threads:         the select_best call each concurrent caller is making on
\*                  the selector, and where it stands in it.
\* probe:           history: the last direct call of one of the selector's
\*                  helper methods, its arguments and what it returned.
VARIABLES criteria, selection_cache, last, mark, calls, threads, probe
vars == <<criteria, selection_cache, last, mark, calls, threads, probe>>

\* ------------------------------------------------------------ the selector
\* A variant that compares scene types as written, without lower() (property
\* C4 tells it apart).
PassesCaseSensitive(crit, c) ==
  /\ ~(Pool[c].overall_score < crit.min_quality_score)
  /\ ~(Pool[c].relevance_score < crit.min_relevance_score)
  /\ ~(Pool[c].cost_estimate > crit.max_cost_per_image)
  /\ ~(\E i \in DOMAIN crit.exclude_scene_types :
         Pool[c].scene_type = crit.exclude_scene_types[i])

\* _apply_filters: the candidates of the list that pass the four hard
\* filters, in list order.
Passes(crit, c) ==
  /\ ~(Pool[c].overall_score < crit.min_quality_score)
  /\ ~(Pool[c].relevance_score < crit.min_relevance_score)
  /\ ~(Pool[c].cost_estimate > crit.max_cost_per_image)
  /\ ~(\E i \in DOMAIN crit.exclude_scene_types :
         Lower(Pool[c].scene_type) = Lower(crit.exclude_scene_types[i]))
apply_filters(crit, candidates) == SelectSeq(candidates, LAMBDA c : Passes(crit, c))

\* _calculate_quality_score, in 1/200.
calculate_quality_score(c) ==
  8 * Pool[c].overall_score + 5 * Pool[c].composition_score
    + 4 * Pool[c].technical_quality + 3 * Pool[c].clarity_score

\* A variant in which cost_optimized carries the weights of diversity_first
\* (property C23 tells it apart).
StrategyWeightsMixedUp(crit, strategy) ==
  CASE strategy = QUALITY_FIRST ->
         [quality |-> 6, relevance |-> 2, diversity |-> 1, cost |-> 1]
    [] strategy = RELEVANCE_FIRST ->
         [quality |-> 2, relevance |-> 6, diversity |-> 1, cost |-> 1]
    [] strategy \in {DIVERSITY_FIRST, COST_OPTIMIZED} ->
         [quality |-> 2, relevance |-> 2, diversity |-> 5, cost |-> 1]
    [] OTHER ->
         [quality |-> crit.quality_weight, relevance |-> crit.relevance_weight,
          diversity |-> crit.diversity_weight, cost |-> crit.cost_weight]

\* _get_strategy_weights, in tenths.
get_strategy_weights(crit, strategy) ==
  CASE strategy = QUALITY_FIRST ->
         [quality |-> 6, relevance |-> 2, diversity |-> 1, cost |-> 1]
    [] strategy = RELEVANCE_FIRST ->
         [quality |-> 2, relevance |-> 6, diversity |-> 1, cost |-> 1]
    [] strategy = DIVERSITY_FIRST ->
         [quality |-> 2, relevance |-> 2, diversity |-> 5, cost |-> 1]
    [] strategy = COST_OPTIMIZED ->
         [quality |-> 2, relevance |-> 2, diversity |-> 1, cost |-> 5]
    [] OTHER ->
         [quality |-> crit.quality_weight, relevance |-> crit.relevance_weight,
          diversity |-> crit.diversity_weight, cost |-> crit.cost_weight]

\* _calculate_context_bonus, in 1/30 (exact for queries of 1 or 2 words).
ObjectMatches(c, words) ==
  Cardinality({<<i, j>> \in (DOMAIN Pool[c].objects) \X (DOMAIN words) :
                 Contains(words[j], Lower(Pool[c].objects[i]))})
DescriptionMatches(c, words) ==
  Cardinality({j \in DOMAIN words : Contains(words[j], Lower(Pool[c].description))})
TitleMatches(c, words) ==
  Cardinality({j \in DOMAIN words : Contains(words[j], Lower(Pool[c].title))})
\* A variant without the cap of 0.2 (property C24 tells it apart).
BonusOfUncapped(total_matches, max_possible) ==
  IF max_possible > 0 THEN (30 * total_matches) \div max_possible ELSE 0
BonusOf(total_matches, max_possible) ==
  IF max_possible > 0 THEN Min(6, (30 * total_matches) \div max_possible) ELSE 0
BonusFor(c, query_words) ==
  BonusOf(ObjectMatches(c, query_words) + DescriptionMatches(c, query_words)
            + TitleMatches(c, query_words),
          Len(query_words) * 3)
calculate_context_bonus(c, text) == BonusFor(c, Split(Lower(text)))

\* cost_score of _calculate_candidate_score, in 1/200. Python raises
\* ZeroDivisionError for a maximum cost of zero: DividesByZero.
DividesByZero(crit) == crit.max_cost_per_image = 0
CostScore(crit, c) ==
  200 - Min(200, (200 * Pool[c].cost_estimate) \div crit.max_cost_per_image)

\* _calculate_candidate_score, in 1/One.
\* A variant without the diversity component (property C14 tells it apart).
WeightedSumWithoutDiversity(crit, c, weights) ==
  calculate_quality_score(c) * weights.quality
    + (20 * Pool[c].relevance_score) * weights.relevance
    + CostScore(crit, c) * weights.cost
\* The weighted sum of the four component scores, in 1/2000.
WeightedSum(crit, c, weights) ==
  calculate_quality_score(c) * weights.quality
    + (20 * Pool[c].relevance_score) * weights.relevance
    + 200 * weights.diversity
    + CostScore(crit, c) * weights.cost
\* The confidence multiplier and the context bonus, in 1/One.
WithBonus(c, confident, search_query) ==
  IF Truthy(search_query)
  THEN confident * (30 + calculate_context_bonus(c, search_query.text))
  ELSE confident * 30
\* A variant without the clamp (property C6 tells it apart).
Unclamped(final_score) == final_score
\* The clamp to [0, 1].
Clamp(final_score) == Min(One, Max(0, final_score))
calculate_candidate_score(crit, c, strategy, search_query) ==
  Clamp(WithBonus(c,
                  WeightedSum(crit, c, get_strategy_weights(crit, strategy))
                    * Pool[c].confidence_score,
                  search_query))

\* A variant that sorts ascending, as without reverse=True (property C5 tells
\* it apart).
RECURSIVE InsertScoredAscending(_, _)
InsertScoredAscending(sorted, e) ==
  IF sorted = <<>> THEN <<e>>
  ELSE IF e[2] < sorted[1][2] THEN <<e>> \o sorted
  ELSE <<sorted[1]>> \o InsertScoredAscending(Tail(sorted), e)

\* A variant: a descending sort that puts an entry before the entries of
\* equal score, so equal scores come out in reverse input order.
RECURSIVE InsertScoredBeforeEqual(_, _)
InsertScoredBeforeEqual(sorted, e) ==
  IF sorted = <<>> THEN <<e>>
  ELSE IF e[2] >= sorted[1][2] THEN <<e>> \o sorted
  ELSE <<sorted[1]>> \o InsertScoredBeforeEqual(Tail(sorted), e)

\* list.sort(key=score, reverse=True): stable, descending. An entry of the
\* scored list is <<candidate, score>>.
RECURSIVE InsertScored(_, _)
InsertScored(sorted, e) ==
  IF sorted = <<>> THEN <<e>>
  ELSE IF e[2] > sorted[1][2] THEN <<e>> \o sorted
  ELSE <<sorted[1]>> \o InsertScored(Tail(sorted), e)
RECURSIVE SortByScore(_)
SortByScore(l) ==
  IF l = <<>> THEN <<>>
  ELSE InsertScored(SortByScore(SubSeq(l, 1, Len(l) - 1)), l[Len(l)])

\* _calculate_scores
\* _calculate_candidate_score of every candidate, tabulated: the score is a
\* function of the criteria, the candidate, the strategy and the query alone.
\* (With a maximum cost of zero no score is ever computed.)
ScoreTable ==
  [crit \in CriteriaSet, c \in Refs, strategy \in SelectionStrategy,
   q \in Queries \cup CacheQueries |->
     IF DividesByZero(crit) THEN 0 ELSE calculate_candidate_score(crit, c, strategy, q)]

\* The scoring loop of _calculate_scores, before the sort.
ScoreAll(crit, candidates, strategy, search_query) ==
  [i \in DOMAIN candidates |->
     <<candidates[i], ScoreTable[crit, candidates[i], strategy, search_query]>>]

calculate_scores(crit, candidates, strategy, search_query) ==
  SortByScore(ScoreAll(crit, candidates, strategy, search_query))

\* _select_single_best
select_single_best(scored_candidates) ==
  IF scored_candidates = <<>> THEN <<>> ELSE <<scored_candidates[1][1]>>

\* |a & b| / |a | b| scaled by weight, 0 when both sets are empty.
Overlap(a, b, weight) ==
  IF a \cup b # {} THEN (weight * Cardinality(a \cap b)) \div Cardinality(a \cup b) ELSE 0

\* A variant that compares the scene types without regard to case (property
\* C21 tells it apart).
PairPenaltyFoldingCase(c, s) ==
  Min(PenaltyOne,
      (IF Lower(Pool[c].scene_type) = Lower(Pool[s].scene_type) THEN 36 ELSE 0)
        + Overlap(LowerSet(Pool[c].objects), LowerSet(Pool[s].objects), 48)
        + Overlap(LowerSet(Pool[c].colors), LowerSet(Pool[s].colors), 36))

\* The penalty of one candidate against one selected image, in 1/PenaltyOne
\* (exact for unions of 1, 2, 3, 4, 6 or 12 elements).
PairPenalty(c, s) ==
  Min(PenaltyOne,
      (IF Pool[c].scene_type = Pool[s].scene_type THEN 36 ELSE 0)
        + Overlap(LowerSet(Pool[c].objects), LowerSet(Pool[s].objects), 48)
        + Overlap(LowerSet(Pool[c].colors), LowerSet(Pool[s].colors), 36))

\* PairPenalty of every two candidates, tabulated.
PenaltyTable == [c \in Refs, s \in Refs |-> PairPenalty(c, s)]

\* max() of a non-empty set of numbers.
MaxOf(S) == CHOOSE y \in S : \A z \in S : z <= y

\* A variant that keeps state between calls: it also penalizes a candidate
\* against the images the previous call selected (property C10 tells it apart).
PenaltyAgainstEarlierSelections(c, selected) ==
  IF selected = <<>> THEN 0
  ELSE MaxOf({PenaltyTable[c, s] :
                s \in {selected[i] : i \in DOMAIN selected}
                        \cup {last.result.selected_images[i] :
                                i \in DOMAIN last.result.selected_images}})

\* _calculate_diversity_penalty, in 1/PenaltyOne.
calculate_diversity_penalty(c, selected) ==
  IF selected = <<>> THEN 0
  ELSE MaxOf({PenaltyTable[c, selected[i]] : i \in DOMAIN selected})

\* A variant that ignores the diversity penalty (property C15 tells it apart).
AdjustedScoreWithoutPenalty(crit, c, base_score, selected) == base_score * PenaltyScale

\* adjusted_score of _select_multiple_best, in 1/(One * PenaltyScale).
AdjustedScore(crit, c, base_score, selected) ==
  base_score
    * (PenaltyScale - calculate_diversity_penalty(c, selected) * crit.diversity_weight)

\* The inner loop of _select_multiple_best from index i on: the index of the
\* best remaining candidate, 0 for None.
RECURSIVE ScanBest(_, _, _, _, _, _)
ScanStep(crit, remaining, selected, i, best_candidate, best_score, adjusted_score) ==
  IF adjusted_score > best_score
  THEN ScanBest(crit, remaining, selected, i + 1, i, adjusted_score)
  ELSE ScanBest(crit, remaining, selected, i + 1, best_candidate, best_score)
ScanBest(crit, remaining, selected, i, best_candidate, best_score) ==
  IF i > Len(remaining) THEN best_candidate
  ELSE ScanStep(crit, remaining, selected, i, best_candidate, best_score,
                AdjustedScore(crit, remaining[i][1], remaining[i][2], selected))

RemoveAt(l, i) == SubSeq(l, 1, i - 1) \o SubSeq(l, i + 1, Len(l))

\* The outer loop of _select_multiple_best, with k iterations to go.
RECURSIVE GreedyLoop(_, _, _, _)
GreedyStep(crit, selected, remaining, k, best_candidate) ==
  IF best_candidate # 0
  THEN GreedyLoop(crit, Append(selected, remaining[best_candidate][1]),
                  RemoveAt(remaining, best_candidate), k - 1)
  ELSE GreedyLoop(crit, selected, remaining, k - 1)
GreedyLoop(crit, selected, remaining, k) ==
  IF k <= 0 \/ remaining = <<>> THEN selected
  ELSE GreedyStep(crit, selected, remaining, k,
                  ScanBest(crit, remaining, selected, 1, 0, -(One * PenaltyScale)))

\* _select_multiple_best
select_multiple_best(crit, scored_candidates, count) ==
  IF count >= Len(scored_candidates)
  THEN [i \in DOMAIN scored_candidates |-> scored_candidates[i][1]]
  ELSE GreedyLoop(crit, <<scored_candidates[1][1]>>, Tail(scored_candidates), count - 1)

\* A float that is a quotient of two integers.
Frac(n, d) == [num |-> n, den |-> d]

RECURSIVE SumSeq(_)
SumSeq(l) == IF l = <<>> THEN 0 ELSE l[1] + SumSeq(Tail(l))

\* statistics.pvariance, the population variance (property C22 tells it
\* apart).
PopulationVariance(xs) ==
  Frac(Len(xs) * SumSeq([i \in DOMAIN xs |-> xs[i] * xs[i]]) - SumSeq(xs) * SumSeq(xs),
       Len(xs) * Len(xs))

\* statistics.variance of the overall scores (tenths), in hundredths.
Variance(xs) ==
  Frac(Len(xs) * SumSeq([i \in DOMAIN xs |-> xs[i] * xs[i]]) - SumSeq(xs) * SumSeq(xs),
       Len(xs) * (Len(xs) - 1))

\* _calculate_diversity_metrics; the empty dict is the empty function.
calculate_diversity_metrics(selected) ==
  IF selected = <<>> THEN <<>>
  ELSE [ scene_type_diversity |->
           Frac(Cardinality({Pool[selected[i]].scene_type : i \in DOMAIN selected}),
                Len(selected)),
         unique_objects |->
           Cardinality(UNION {LowerSet(Pool[selected[i]].objects) : i \in DOMAIN selected}),
         unique_colors |->
           Cardinality(UNION {LowerSet(Pool[selected[i]].colors) : i \in DOMAIN selected}),
         quality_variance |->
           IF Len(selected) > 1
           THEN Variance([i \in DOMAIN selected |-> Pool[selected[i]].overall_score])
           ELSE Frac(0, 1),
         selection_count |-> Len(selected) ]

\* _generate_reasoning: the sentences of the string, each with the values it
\* prints.
generate_reasoning(selected, scored_candidates, strategy) ==
  IF selected = <<>> THEN << [kind |-> "No images met the minimum selection criteria."] >>
  ELSE << [kind |-> "Selection made using", strategy |-> strategy],
          [kind |-> "Selected", images |-> Len(selected),
           candidates |-> Len(scored_candidates)] >>
       \o [i \in DOMAIN selected |->
             [kind |-> "Image", index |-> i,
              quality |-> Pool[selected[i]].overall_score,
              relevance |-> Pool[selected[i]].relevance_score,
              confidence |-> Pool[selected[i]].confidence_score,
              scene |-> Pool[selected[i]].scene_type,
              key_objects |-> SubSeq(Pool[selected[i]].objects, 1,
                                     Min(3, Len(Pool[selected[i]].objects)))]]
       \o (IF Len(selected) > 1
           THEN << [kind |-> "Diversity maintained with",
                    scene_variety |->
                      calculate_diversity_metrics(selected).scene_type_diversity] >>
           ELSE <<>>)

\* _get_cache_key: the text that is hashed. The 16 hex digits kept of its
\* SHA-256 are taken to be different for different texts.
get_cache_key(candidates, count, strategy, search_query) ==
  ReprList(SortedStrs([i \in DOMAIN candidates |-> Pool[candidates[i]].image_url]))
    \o StrInt(count) \o StrategyValue(strategy) \o FormatOptional(search_query)

\* A variant: a dict that holds the score of the best candidate only.
ScoresOfFirstOnly(scored_candidates) ==
  IF scored_candidates = <<>> THEN <<>>
  ELSE [u \in {Pool[scored_candidates[1][1]].image_url} |-> scored_candidates[1][2]]

\* {c.image_url: score for c, score in scored_candidates}: a dict, so a later
\* entry of the same URL overwrites an earlier one.
ScoresOf(scored_candidates) ==
  LET UrlAt(i) == Pool[scored_candidates[i][1]].image_url
      LastIndex(u) == CHOOSE i \in DOMAIN scored_candidates :
                        /\ UrlAt(i) = u
                        /\ \A j \in DOMAIN scored_candidates : UrlAt(j) = u => j <= i
  IN  [u \in {UrlAt(i) : i \in DOMAIN scored_candidates} |->
         scored_candidates[LastIndex(u)][2]]

\* `candidate in selected`: equality of dataclass instances is equality of
\* their fields.
IsIn(c, selected) == \E j \in DOMAIN selected : Pool[selected[j]] = Pool[c]

\* A variant without the cap of five (property C17 tells it apart).
AlternativesUncapped(scored_candidates, selected) ==
  SelectSeq([i \in DOMAIN scored_candidates |-> scored_candidates[i][1]],
            LAMBDA c : \A j \in DOMAIN selected : Pool[selected[j]] # Pool[c])

\* The alternatives of select_best.
FirstN(l, n) == SubSeq(l, 1, Min(Len(l), n))
Alternatives(scored_candidates, selected) ==
  FirstN(SelectSeq([i \in DOMAIN scored_candidates |-> scored_candidates[i][1]],
                   LAMBDA c : ~IsIn(c, selected)),
         Min(5, Len(scored_candidates) - Len(selected)))

\* A variant that counts the filtered candidates, len(filtered_candidates) = 0,
\* instead of the given ones (property C7 tells it apart).
EmptyResultCountingFiltered(candidates, strategy) ==
  [ selected_images |-> <<>>, scores |-> <<>>,
    reasoning |-> << [kind |-> "No candidates met minimum quality and relevance criteria"] >>,
    alternatives |-> <<>>, diversity_metrics |-> <<>>,
    total_candidates |-> 0, selection_time |-> 0,
    strategy_used |-> strategy ]

\* The result select_best builds when no candidate passes the filters.
EmptyResult(candidates, strategy) ==
  [ selected_images |-> <<>>, scores |-> <<>>,
    reasoning |-> << [kind |-> "No candidates met minimum quality and relevance criteria"] >>,
    alternatives |-> <<>>, diversity_metrics |-> <<>>,
    total_candidates |-> Len(candidates), selection_time |-> 0,
    strategy_used |-> strategy ]

\* The SelectionResult select_best builds from the scored candidates and the
\* selection made among them; elapsed is the wall time the call took.
MakeResult(candidates, scored_candidates, selected, strategy, elapsed) ==
  [ selected_images |-> selected,
    scores |-> ScoresOf(scored_candidates),
    reasoning |-> generate_reasoning(selected, scored_candidates, strategy),
    alternatives |-> Alternatives(scored_candidates, selected),
    diversity_metrics |-> calculate_diversity_metrics(selected),
    total_candidates |-> Len(candidates),
    selection_time |-> elapsed,
    strategy_used |-> strategy ]

\* The selection step of select_best, for the clamped count.
Select(crit, scored_candidates, count) ==
  IF count = 1
  THEN select_single_best(scored_candidates)
  ELSE select_multiple_best(crit, scored_candidates, count)

\* select_best from the scoring pass to the result.
ResultOf(crit, candidates, scored_candidates, count, strategy, elapsed) ==
  MakeResult(candidates, scored_candidates, Select(crit, scored_candidates, count),
             strategy, elapsed)

\* select_best from the filtered candidates (not empty) to the result.
BuildResult(crit, candidates, filtered_candidates, count, strategy, search_query, elapsed) ==
  ResultOf(crit, candidates,
           calculate_scores(crit, filtered_candidates, strategy, search_query),
           count, strategy, elapsed)

\* A variant that lets a count of zero through (property C1 tells it apart).
InvalidArgumentNegativeOnly(candidates, count) == candidates = <<>> \/ count < 0

\* The two checks select_best makes before anything else.
InvalidArgument(candidates, count) == candidates = <<>> \/ count <= 0

\* `if count > len(candidates): count = len(candidates)`
ClampCount(candidates, count) ==
  IF count > Len(candidates) THEN Len(candidates) ELSE count

\* A variant that never finds a stored result (property C8 tells it apart).
cache_never_hit(cache, cache_key) == FALSE

\* `if cached := self.selection_cache.get(cache_key)`: a stored result is
\* always truthy.
cache_hit(cache, cache_key) == cache_key \in DOMAIN cache

\* A store that replaces the whole dict by the new entry.
cache_store_alone(cache, cache_key, result) == [k \in {cache_key} |-> result]

\* self.selection_cache[cache_key] = result
cache_store(cache, cache_key, result) ==
  [k \in (DOMAIN cache) \cup {cache_key} |-> IF k = cache_key THEN result ELSE cache[k]]

\* No result: the call raised.
NoResult == EmptyResult(<<>>, BALANCED)

\* How a select_best call ends: outcome, whether it was served from the cache
\* (hit), what it returns (result), the cache it leaves, and the stages it
\* went through (trace).
Raised(error, cache, trace) ==
  [outcome |-> error, hit |-> FALSE, result |-> NoResult, cache |-> cache, trace |-> trace]
Returned(result, hit, cache, trace) ==
  [outcome |-> "ok", hit |-> hit, result |-> result, cache |-> cache, trace |-> trace]

\* The end of select_best: the result is stored under the key and returned.
StoreAndReturn(cache, cache_key, result) ==
  Returned(result, FALSE, cache_store(cache, cache_key, result),
           <<"validate", "cache_lookup", "filter", "score", "select", "store">>)

\* select_best after a cache miss.
SelectFiltered(cache, cache_key, crit, candidates, filtered_candidates, count, strategy, search_query, elapsed) ==
  IF filtered_candidates = <<>>
  THEN Returned(EmptyResult(candidates, strategy), FALSE, cache,
                <<"validate", "cache_lookup", "filter">>)
  ELSE IF DividesByZero(crit)
  THEN Raised("ZeroDivisionError", cache, <<"validate", "cache_lookup", "filter", "score">>)
  ELSE StoreAndReturn(cache, cache_key,
                      BuildResult(crit, candidates, filtered_candidates, count,
                                  strategy, search_query, elapsed))

\* select_best from the cache lookup on.
SelectKeyed(cache, cache_key, crit, candidates, count, strategy, search_query, elapsed) ==
  IF cache_hit(cache, cache_key)
  THEN Returned(cache[cache_key], TRUE, cache, <<"validate", "cache_lookup">>)
  ELSE SelectFiltered(cache, cache_key, crit, candidates,
                      apply_filters(crit, candidates), count, strategy, search_query,
                      elapsed)

\* select_best for valid arguments and the clamped count.
SelectValid(cache, crit, candidates, count, strategy, search_query, elapsed) ==
  SelectKeyed(cache, get_cache_key(candidates, count, strategy, search_query), crit,
              candidates, count, strategy, search_query, elapsed)

\* select_best on a selector with this cache and these criteria.
select_best(cache, crit, candidates, count, strategy, search_query, elapsed) ==
  IF InvalidArgument(candidates, count)
  THEN Raised("ValueError", cache, <<"validate">>)
  ELSE SelectValid(cache, crit, candidates, ClampCount(candidates, count), strategy,
                   search_query, elapsed)

UrlOf(c) == Pool[c].image_url

\* The selection reasons of explain_selection, in the order they are appended.
SelectionReasons(c) ==
  (IF calculate_quality_score(c) > 160 THEN <<"High quality score">> ELSE <<>>)
    \o (IF Pool[c].relevance_score > 8
        THEN <<"Strong relevance to search query">> ELSE <<>>)
    \o (IF Pool[c].confidence_score > 8 THEN <<"High analysis confidence">> ELSE <<>>)
    \o (IF Pool[c].composition_score > 8 THEN <<"Excellent composition">> ELSE <<>>)

\* The SelectionExplanation of the image at list index i - 1 (the model's
\* sequences start at 1, so rank = (i - 1) + 1). final_score in 1/One,
\* quality and cost_efficiency in 1/200, relevance and confidence in tenths.
Explanation(crit, result, i) ==
  [ candidate |-> result.selected_images[i],
    final_score |-> IF UrlOf(result.selected_images[i]) \in DOMAIN result.scores
                    THEN result.scores[UrlOf(result.selected_images[i])] ELSE 0,
    score_breakdown |->
      [quality |-> calculate_quality_score(result.selected_images[i]),
       relevance |-> Pool[result.selected_images[i]].relevance_score,
       confidence |-> Pool[result.selected_images[i]].confidence_score,
       cost_efficiency |-> CostScore(crit, result.selected_images[i])],
    selection_reasons |-> SelectionReasons(result.selected_images[i]),
    rejection_reasons |-> <<>>,
    rank |-> i ]

\* explain_selection: the division by max_cost_per_image is made for every
\* selected image.
explain_selection(crit, result) ==
  IF result.selected_images # <<>> /\ DividesByZero(crit)
  THEN [outcome |-> "ZeroDivisionError", explanations |-> <<>>]
  ELSE [outcome |-> "ok",
        explanations |-> [i \in DOMAIN result.selected_images |->
                            Explanation(crit, result, i)]]

\* get_selection_stats
get_selection_stats(cache, crit) ==
  [cache_size |-> Cardinality(DOMAIN cache), criteria |-> crit]

\* ----------------------------------------------------------------- inputs
\* The wall time a call may take, in ticks.
Elapsed == {1, 2}

\* Every list of up to MaxLen of the first five candidates, and a few lists
\* of more: one with two equally scored candidates of which one resembles
\* the top-ranked candidate, and two of seven different candidates.
ListRefs == {c \in Refs : c <= 5}
ExtraLists == {<<1, 2, 6>>, <<1, 2, 3, 4, 5, 6, 7>>, <<7, 6, 5, 4, 3, 2, 1>>}
Lists == UNION {[1..n -> ListRefs] : n \in 0..MaxLen} \cup ExtraLists
Counts == (-1)..MaxCount
Args(candidates, count, strategy, search_query) ==
  [candidates |-> candidates, count |-> count, strategy |-> strategy,
   search_query |-> search_query]
\* What one call on a fresh selector may be given.
AllArgs ==
  {Args(l, n, s, q) : l \in Lists, n \in Counts, s \in SelectionStrategy, q \in Queries}

\* What the calls of the cache specification may be given: lists with a tie in
\* either order, a count below the number of candidates, and CacheQueries.
CacheLists == {<<>>, <<1, 2>>, <<2, 1>>, <<1, 2, 3>>}
CacheArgs ==
  {Args(l, n, BALANCED, q) : l \in CacheLists, n \in 0..2, q \in CacheQueries}

\* ----------------------------------------------------------------- actions
NoArgs == Args(<<>>, 0, BALANCED, NoneQuery)
NoMark ==
  [set |-> FALSE, args |-> NoArgs, hit |-> FALSE, result |-> NoResult,
   cleared |-> FALSE, age |-> 0, cache_size |-> 0]

\* No helper method was called yet. fn: the method; c, selected: the
\* candidate and the selected images given to _calculate_diversity_penalty;
\* text: the query given to _calculate_context_bonus; a, b: two argument
\* tuples given to _get_cache_key; value: what the method returned (for
\* _get_cache_key, the key of a); before: what it returned before the last
\* member was added to selected; other: the key of b.
NoProbe ==
  [fn |-> "none", c |-> 1, selected |-> <<>>, text |-> <<>>, a |-> NoArgs, b |-> NoArgs,
   value |-> 0, before |-> 0, other |-> 0]

\* The callers that share the selector.
Threads == {"caller_1", "caller_2"}
\* A caller that has not called yet. pc: "idle" before the call, "computing"
\* between the cache lookup that missed and the end of the call, "done" after
\* it. intruded: another caller or clear_cache accessed the cache while this
\* call was computing. cleared: clear_cache ran after this call began.
NoThread ==
  [pc |-> "idle", args |-> NoArgs, outcome |-> "none", hit |-> FALSE,
   result |-> NoResult, intruded |-> FALSE, cleared |-> FALSE]

\* A selection that removes its picks from the list it was given.
CandidatesAfterPopping(candidates, selected) ==
  SelectSeq(candidates, LAMBDA c : ~IsIn(c, selected))

\* The caller's list after select_best. The filter appends to a list of its
\* own, the scoring pass builds and sorts a list of pairs, and the multi-select
\* step takes its picks out of `remaining`, a copy of that list of pairs: no
\* statement removes from, inserts into or reorders `candidates`.
CandidatesAfterCall(candidates, selected) == candidates

\* The candidates an attribute of which select_best or explain_selection
\* assigns or mutates in place: every use of a candidate is a read.
CandidatesWritten(candidates) == {}

\* The result explain_selection was given, after the call: the loop reads
\* selected_images and scores and appends to a list of its own.
ResultAfterExplain(result) == result

\* ImageSelector.__init__ with one of the criteria.
Init ==
  /\ criteria \in CriteriaSet
  /\ selection_cache = <<>>
  /\ last = [op |-> "init", args |-> NoArgs, outcome |-> "ok", hit |-> FALSE,
             result |-> NoResult, cache_before |-> <<>>, trace |-> <<>>,
             candidates_after |-> <<>>, written |-> {}, criteria_before |-> criteria,
             explained |-> NoResult, explained_after |-> NoResult,
             explanations |-> <<>>]
  /\ mark = NoMark
  /\ calls = 0
  /\ threads = [t \in Threads |-> NoThread]
  /\ probe = NoProbe

Older(m) == [m EXCEPT !.age = Min(2, m.age + 1)]

\* The effect on the state of a select_best call with arguments a that ends
\* as r. remember: this call becomes the marked one.
Finish(a, r, remember) ==
  /\ remember => (~mark.set /\ r.outcome = "ok")
  /\ selection_cache' = r.cache
  /\ last' = [op |-> "select_best", args |-> a, outcome |-> r.outcome, hit |-> r.hit,
              result |-> IF r.outcome = "ok" THEN r.result ELSE last.result,
              cache_before |-> selection_cache, trace |-> r.trace,
              candidates_after |-> CandidatesAfterCall(a.candidates, r.result.selected_images),
              written |-> CandidatesWritten(a.candidates),
              criteria_before |-> criteria,
              explained |-> last.explained, explained_after |-> last.explained_after,
              explanations |-> last.explanations]
  /\ mark' = IF remember
             THEN [set |-> TRUE, args |-> a, hit |-> r.hit, result |-> r.result,
                   cleared |-> FALSE, age |-> 0,
                   cache_size |-> Cardinality(DOMAIN r.cache)]
             ELSE IF mark.set THEN Older(mark) ELSE mark
  /\ calls' = calls + 1
  /\ UNCHANGED <<criteria, threads, probe>>

\* One select_best call.
SelectBest(a, elapsed, remember) ==
  Finish(a, select_best(selection_cache, criteria, a.candidates, a.count, a.strategy,
                        a.search_query, elapsed),
         remember)

\* A clear_cache that leaves the entries in place (property C18 tells it
\* apart).
ClearCacheKeepingEntries ==
  /\ selection_cache' = selection_cache
  /\ last' = [last EXCEPT !.op = "clear_cache", !.outcome = "ok", !.hit = FALSE,
                          !.cache_before = selection_cache, !.trace = <<>>]
  /\ mark' = IF mark.set THEN [Older(mark) EXCEPT !.cleared = TRUE] ELSE mark
  /\ UNCHANGED <<criteria, calls, threads, probe>>

\* clear_cache
ClearCache ==
  /\ selection_cache' = <<>>
  /\ last' = [last EXCEPT !.op = "clear_cache", !.outcome = "ok", !.hit = FALSE,
                          !.cache_before = selection_cache, !.trace = <<>>]
  /\ mark' = IF mark.set THEN [Older(mark) EXCEPT !.cleared = TRUE] ELSE mark
  /\ UNCHANGED <<criteria, calls, threads, probe>>

\* Calls on one selector, with the cache cleared now and then.
Call ==
  /\ calls < MaxCalls
  /\ \E a \in CacheArgs, elapsed \in Elapsed, remember \in BOOLEAN :
       SelectBest(a, elapsed, remember)
Next == Call \/ ClearCache
Spec == Init /\ [][Next]_vars

\* One call on a freshly constructed selector, with any arguments; it takes
\* one tick.
FirstCall ==
  /\ calls = 0
  /\ \E a \in AllArgs : SelectBest(a, 1, FALSE)
SpecSelect == Init /\ [][FirstCall]_vars

\* What the calls that exercise the scoring pass are given: any list, a
\* positive count, any strategy, and no query or a query of two words.
ScoringQueries == {NoneQuery, Str(<<"C", "a", "t", " ", "d", "o", "g">>)}
ScoringArgs ==
  {Args(l, n, s, q) : l \in Lists, n \in 1..MaxCount, s \in SelectionStrategy,
                      q \in ScoringQueries}
\* One call with a positive count on a freshly constructed selector.
ScoringCall ==
  /\ calls = 0
  /\ \E a \in ScoringArgs : SelectBest(a, 1, FALSE)
SpecScoring == Init /\ [][ScoringCall]_vars

\* What explain_selection is given in the explanation specification: lists of
\* one candidate, of one candidate three times, of two analyses of one URL,
\* and the longer lists, under every strategy.
ExplainLists == {<<c>> : c \in Refs} \cup ExtraLists \cup {<<3, 3, 3>>, <<5, 1>>}
ExplainArgs ==
  {Args(l, n, s, q) : l \in ExplainLists, n \in 1..MaxCount, s \in SelectionStrategy,
                      q \in {NoneQuery, Str(<<"C", "a", "t", " ", "d", "o", "g">>)}}
\* A result another selector, with the default criteria, returned.
ForeignResult ==
  select_best(<<>>, DefaultCriteria, <<1, 2, 3>>, 2, BALANCED, NoneQuery, 1).result
\* A result whose scores dict the caller emptied.
WithoutScores(result) == [result EXCEPT !.scores = <<>>]

\* explain_selection(result)
ExplainSelection(result) ==
  /\ last' = [last EXCEPT
                !.op = "explain_selection",
                !.outcome = explain_selection(criteria, result).outcome,
                !.hit = FALSE, !.cache_before = selection_cache, !.trace = <<>>,
                !.written = CandidatesWritten(result.selected_images),
                !.criteria_before = criteria,
                !.explained = result, !.explained_after = ResultAfterExplain(result),
                !.explanations = explain_selection(criteria, result).explanations]
  /\ UNCHANGED <<criteria, selection_cache, mark, calls, threads, probe>>

\* One select_best call on a new selector.
ExplainCall ==
  /\ calls = 0
  /\ \E a \in ExplainArgs : SelectBest(a, 1, FALSE)
\* An explanation of the last result, of that result without its scores, or
\* of another selector's result.
Explain ==
  \E result \in {last.result, WithoutScores(last.result), ForeignResult} :
     ExplainSelection(result)
NextExplain == ExplainCall \/ Explain
\* A select_best call and explanations of results.
SpecExplain == Init /\ [][NextExplain]_vars

\* _calculate_diversity_penalty(c, []) called directly.
DiversityPenalty(c) ==
  /\ probe.fn = "none"
  /\ probe' = [NoProbe EXCEPT !.fn = "diversity_penalty", !.c = c,
                              !.value = calculate_diversity_penalty(c, <<>>)]
  /\ UNCHANGED <<criteria, selection_cache, last, mark, calls, threads>>
\* _calculate_diversity_penalty(c, selected + [s]) after
\* _calculate_diversity_penalty(c, selected).
DiversityPenaltyWith(s) ==
  /\ probe.fn = "diversity_penalty"
  /\ Len(probe.selected) < MaxLen
  /\ probe' = [probe EXCEPT
                 !.selected = Append(probe.selected, s),
                 !.before = probe.value,
                 !.value = calculate_diversity_penalty(probe.c, Append(probe.selected, s))]
  /\ UNCHANGED <<criteria, selection_cache, last, mark, calls, threads>>

\* The query strings _calculate_context_bonus is given: empty, blank, one
\* word, one word between blanks, two words, a word twice, a word no
\* candidate holds.
BonusTexts ==
  { <<>>, <<" ">>, <<" ", " ">>, <<"c", "a", "t">>, <<" ", "C", "a", "t", " ">>,
    <<"C", "a", "t", " ", "d", "o", "g">>, <<"c", "a", "t", " ", "c", "a", "t">>,
    <<"d", "o", "g">>, <<"a">>, <<"z", "e", "b", "r", "a">> }
\* _calculate_context_bonus(c, text) called directly.
ContextBonus(c, text) ==
  /\ probe.fn = "none"
  /\ probe' = [NoProbe EXCEPT !.fn = "context_bonus", !.c = c, !.text = text,
                              !.value = calculate_context_bonus(c, text)]
  /\ UNCHANGED <<criteria, selection_cache, last, mark, calls, threads>>

\* The argument tuples _get_cache_key is given.
KeyLists == {<<1>>, <<1, 2>>, <<2, 1>>, <<1, 2, 3>>, <<3, 1, 2>>, <<1, 3>>, <<1, 1, 2>>}
KeyArgs ==
  {Args(l, n, s, q) : l \in KeyLists, n \in 1..2, s \in {BALANCED, QUALITY_FIRST},
                      q \in {NoneQuery, Str(<<>>), Str(<<"N", "o", "n", "e">>)}}
\* _get_cache_key called directly on two argument tuples.
CacheKeys(a, b) ==
  /\ probe.fn = "none"
  /\ probe' = [NoProbe EXCEPT
                 !.fn = "cache_key", !.a = a, !.b = b,
                 !.value = get_cache_key(a.candidates, a.count, a.strategy, a.search_query),
                 !.other = get_cache_key(b.candidates, b.count, b.strategy, b.search_query)]
  /\ UNCHANGED <<criteria, selection_cache, last, mark, calls, threads>>

PenaltyOfNone == \E c \in Refs : DiversityPenalty(c)
PenaltyOfMore == \E s \in Refs : DiversityPenaltyWith(s)
BonusOfQuery == \E c \in Refs, text \in BonusTexts : ContextBonus(c, text)
KeysOfTwo == \E a, b \in KeyArgs : CacheKeys(a, b)
NextHelpers == PenaltyOfNone \/ PenaltyOfMore \/ BonusOfQuery \/ KeysOfTwo
\* Direct calls of the helper methods of a new selector: one method per
\* behaviour, _calculate_diversity_penalty on a growing list.
SpecHelpers == Init /\ [][NextHelpers]_vars

\* What concurrent callers pass: an empty list, lists of different URLs, and
\* two lists of one URL.
ThreadLists == {<<>>, <<1>>, <<5>>, <<1, 2>>, <<3>>}
ThreadArgs == {Args(l, 1, BALANCED, NoneQuery) : l \in ThreadLists}

\* The key of the call caller t is making.
KeyOf(a) ==
  get_cache_key(a.candidates, ClampCount(a.candidates, a.count), a.strategy,
                a.search_query)

\* The other callers' view of a cache access made while they are computing.
Intrude(ts, t) ==
  [u \in Threads |->
     IF u # t /\ ts[u].pc = "computing" THEN [ts[u] EXCEPT !.intruded = TRUE] ELSE ts[u]]

\* How caller t's call ends as r; accessed: the step read or wrote the cache.
ThreadEnds(t, r, accessed) ==
  /\ threads' = [(IF accessed THEN Intrude(threads, t) ELSE threads) EXCEPT
                   ![t].pc = "done", ![t].outcome = r.outcome, ![t].hit = r.hit,
                   ![t].result = r.result]
  /\ selection_cache' = r.cache

\* Caller t enters select_best with arguments a: the checks of the arguments,
\* the cache key and the cache lookup. The dict lookup is one atomic step; on
\* a miss the call goes on computing, holding no lock.
Lookup(t, a) ==
  /\ threads[t].pc = "idle"
  /\ IF InvalidArgument(a.candidates, a.count)
     THEN /\ threads' = [threads EXCEPT ![t].pc = "done", ![t].args = a,
                                         ![t].outcome = "ValueError"]
          /\ UNCHANGED selection_cache
     ELSE IF cache_hit(selection_cache, KeyOf(a))
     THEN /\ threads' = [Intrude(threads, t) EXCEPT
                           ![t].pc = "done", ![t].args = a, ![t].outcome = "ok",
                           ![t].hit = TRUE, ![t].result = selection_cache[KeyOf(a)]]
          /\ UNCHANGED selection_cache
     ELSE /\ threads' = [Intrude(threads, t) EXCEPT ![t].pc = "computing", ![t].args = a]
          /\ UNCHANGED selection_cache
  /\ UNCHANGED <<criteria, last, mark, calls, probe>>

\* Caller t finishes the call it is computing: filtering, scoring and
\* selection on its own lists, then the store into the shared dict as it is
\* now (one atomic step), unless the call returns the empty result or raises.
Compute(t) ==
  /\ threads[t].pc = "computing"
  /\ ThreadEnds(t,
                SelectFiltered(selection_cache, KeyOf(threads[t].args), criteria,
                               threads[t].args.candidates,
                               apply_filters(criteria, threads[t].args.candidates),
                               ClampCount(threads[t].args.candidates, threads[t].args.count),
                               threads[t].args.strategy, threads[t].args.search_query, 1),
                apply_filters(criteria, threads[t].args.candidates) # <<>>
                  /\ ~DividesByZero(criteria))
  /\ UNCHANGED <<criteria, last, mark, calls, probe>>

\* clear_cache, called while other callers may be in select_best.
ThreadClear ==
  /\ selection_cache' = <<>>
  /\ threads' = [u \in Threads |->
                   IF threads[u].pc = "idle" THEN threads[u]
                   ELSE [threads[u] EXCEPT !.cleared = TRUE,
                                           !.intruded = @ \/ threads[u].pc = "computing"]]
  /\ UNCHANGED <<criteria, last, mark, calls, probe>>

ThreadLookup == \E t \in Threads, a \in ThreadArgs : Lookup(t, a)
ThreadCompute == \E t \in Threads : Compute(t)
NextThreads == ThreadLookup \/ ThreadCompute \/ ThreadClear
\* Concurrent callers of one selector, each making one select_best call.
SpecThreads == Init /\ [][NextThreads]_vars

\* ------------------------------------------------------------- properties
\* What the properties say of the last call, stated from its arguments and the
\* criteria, apart from the selector's own operators.
Called == last.op = "select_best"
Returns == Called /\ last.outcome = "ok"
Given == last.args.candidates
Selected == last.result.selected_images

\* Candidate c meets the four hard minimums of the criteria.
MeetsCriteria(c) ==
  /\ Pool[c].overall_score >= criteria.min_quality_score
  /\ Pool[c].relevance_score >= criteria.min_relevance_score
  /\ Pool[c].cost_estimate <= criteria.max_cost_per_image
  /\ \A i \in DOMAIN criteria.exclude_scene_types :
       Lower(Pool[c].scene_type) # Lower(criteria.exclude_scene_types[i])
\* The candidates of the last call that survive the filters.
Surviving == {Given[i] : i \in {j \in DOMAIN Given : MeetsCriteria(Given[j])}}
SurvivingCount == Cardinality({j \in DOMAIN Given : MeetsCriteria(Given[j])})
\* The score the scoring pass gives candidate c in the last call.
BaseScore(c) == ScoreTable[criteria, c, last.args.strategy, last.args.search_query]
\* The score the result reports for candidate c.
Reported(c) == last.result.scores[UrlOf(c)]

\* C1: select_best raises ValueError whenever candidates is empty or count
\* is not positive; it raises before the cache lookup, the filtering and the
\* scoring, and the cache is after the call what it was before.
C1_InvalidArgumentFailsFast ==
  (Called /\ (Given = <<>> \/ last.args.count <= 0)) =>
     /\ last.outcome = "ValueError"
     /\ last.trace = <<"validate">>
     /\ selection_cache = last.cache_before
\* A call with candidates and a count of zero or less has failed on a selector
\* whose cache holds an entry.
C1_Witness ==
  /\ Called /\ Given # <<>> /\ last.args.count <= 0
  /\ last.outcome = "ValueError"
  /\ DOMAIN selection_cache # {}

\* C2: with candidates and a count of at least 1, and criteria whose weights,
\* minimums and maximum cost are not negative, select_best returns a result:
\* it never raises.
C2_NeverRaisesOnValidArguments ==
  (Called /\ Given # <<>> /\ last.args.count >= 1) => last.outcome = "ok"

\* C3: the result holds min(count, number of surviving candidates) images.
C3_CountBound ==
  Returns => Len(Selected) = Min(last.args.count, SurvivingCount)

\* C4: every selected image meets the four hard minimums; a candidate exactly
\* on a minimum is kept.
C4_SelectedPassFilters ==
  Returns => \A i \in DOMAIN Selected : MeetsCriteria(Selected[i])
\* A selected image exactly on the quality minimum, from a list of which
\* another candidate was dropped.
C4_Witness ==
  /\ Returns
  /\ \E i \in DOMAIN Selected :
       Pool[Selected[i]].overall_score = criteria.min_quality_score
  /\ \E j \in DOMAIN Given : ~MeetsCriteria(Given[j])

\* No surviving candidate of another score shares the URL of candidate c.
NoUrlClash(c) ==
  \A d \in Surviving : UrlOf(d) = UrlOf(c) => BaseScore(d) = BaseScore(c)

\* C5 as claimed: the first selected image is a surviving candidate whose
\* reported score is the maximum of the reported scores of the survivors.
C5_TopReportedScore ==
  (Returns /\ Surviving # {}) =>
     /\ Selected # <<>>
     /\ Selected[1] \in Surviving
     /\ \A d \in Surviving : Reported(d) <= Reported(Selected[1])
\* C5, amended: the first selected image is a surviving candidate whose score
\* from the scoring pass is the maximum over the survivors; it is also its
\* reported score, and the maximum of the reported scores, unless a surviving
\* candidate of another score shares its URL.
C5_TopBaseScore ==
  (Returns /\ Surviving # {}) =>
     /\ Selected # <<>>
     /\ Selected[1] \in Surviving
     /\ \A d \in Surviving : BaseScore(d) <= BaseScore(Selected[1])
     /\ NoUrlClash(Selected[1]) =>
          /\ Reported(Selected[1]) = BaseScore(Selected[1])
          /\ \A d \in Surviving : Reported(d) <= Reported(Selected[1])
\* Two images were picked out of three survivors of different scores (the
\* multi-select loop ran).
C5_Witness ==
  /\ Returns /\ SurvivingCount = 3 /\ last.args.count = 2 /\ Len(Selected) = 2
  /\ \E d \in Surviving : BaseScore(d) < BaseScore(Selected[1])

\* C6: every reported score lies in [0, 1].
C6_ScoresInUnitInterval ==
  Returns => \A u \in DOMAIN last.result.scores :
               0 <= last.result.scores[u] /\ last.result.scores[u] <= One
\* A score was clamped: with weights that sum to more than 1 and the context
\* bonus, the unclamped score of a selected image exceeds 1.
C6_Witness ==
  /\ Returns /\ Truthy(last.args.search_query)
  /\ \E i \in DOMAIN Selected :
       /\ WithBonus(Selected[i],
                    WeightedSum(criteria, Selected[i],
                                get_strategy_weights(criteria, last.args.strategy))
                      * Pool[Selected[i]].confidence_score,
                    last.args.search_query) > One
       /\ calculate_context_bonus(Selected[i], last.args.search_query.text) > 0
       /\ Reported(Selected[i]) = One

\* C7: when the filters drop every candidate of a non-empty list, select_best
\* returns an empty selection, no scores, no alternatives, the number of
\* candidates given, the strategy asked for and a reasoning that is not empty.
C7_AllFilteredEmptyResult ==
  (Called /\ Given # <<>> /\ last.args.count >= 1 /\ Surviving = {}) =>
     /\ last.outcome = "ok"
     /\ Selected = <<>>
     /\ DOMAIN last.result.scores = {}
     /\ last.result.alternatives = <<>>
     /\ last.result.total_candidates = Len(Given)
     /\ last.result.strategy_used = last.args.strategy
     /\ last.result.reasoning # <<>>
     /\ \A i \in DOMAIN last.result.reasoning : last.result.reasoning[i].kind # ""
\* Two or more candidates were given and all were dropped.
C7_Witness ==
  Returns /\ Len(Given) >= 2 /\ Surviving = {} /\ last.args.count >= 1

\* The last call repeats the marked call, with no clear_cache in between.
Repeats == Called /\ mark.set /\ mark.age >= 1 /\ ~mark.cleared /\ last.args = mark.args

\* C8 as claimed: a call that follows an earlier successful call with the same
\* arguments is served from the cache, returns the first call's result, and
\* the cache has as many entries after it as after the first call.
C8_SecondCallServedFromCache ==
  (Repeats /\ mark.age = 1) =>
     /\ last.outcome = "ok"
     /\ last.hit
     /\ last.result = mark.result
     /\ Cardinality(DOMAIN selection_cache) = mark.cache_size
\* C8, amended: a call that repeats an earlier call that selected an image is
\* served from the cache and returns that call's result unchanged; one that
\* repeats a call whose candidates were all filtered out is computed again
\* and returns an equal, empty result; either way it leaves the cache as it
\* found it, with as many entries as after the first call when it follows it
\* directly.
C8_RepeatServedFromCache ==
  Repeats =>
     /\ last.outcome = "ok"
     /\ last.result = mark.result
     /\ last.hit <=> mark.result.selected_images # <<>>
     /\ selection_cache = last.cache_before
     /\ mark.age = 1 => Cardinality(DOMAIN selection_cache) = mark.cache_size
\* A call that stored its result was repeated directly and served from the
\* cache.
C8_Witness ==
  /\ Repeats /\ mark.age = 1 /\ ~mark.hit /\ last.hit
  /\ Len(Selected) = 2

\* What a freshly constructed selector with the same criteria returns for the
\* arguments of the last call.
Fresh ==
  select_best(<<>>, criteria, Given, last.args.count, last.args.strategy,
              last.args.search_query, 1).result
\* C9: after any calls, select_best returns the selected images and the
\* scores that a fresh selector returns for the same arguments.
C9_CacheTransparent ==
  Returns =>
     /\ Selected = Fresh.selected_images
     /\ last.result.scores = Fresh.scores

C11_CacheAccessesExclusive == \A t \in Threads : ~threads[t].intruded

\* The URLs of the list caller t passed.
ThreadUrls(t) ==
  {UrlOf(threads[t].args.candidates[i]) : i \in DOMAIN threads[t].args.candidates}
\* What caller t's call returns on a selector nobody else uses.
Alone(t) ==
  select_best(<<>>, criteria, threads[t].args.candidates, threads[t].args.count,
              threads[t].args.strategy, threads[t].args.search_query, 1)
\* Both callers have finished a call with valid arguments, on lists of
\* different URLs, and the cache was not cleared since the first began.
IndependentCallsDone ==
  /\ \A t \in Threads :
       /\ threads[t].pc = "done"
       /\ ~threads[t].cleared
       /\ ~InvalidArgument(threads[t].args.candidates, threads[t].args.count)
  /\ \A t, u \in Threads : t # u => ThreadUrls(t) \cap ThreadUrls(u) = {}
\* Caller t's call ended as it would alone.
AsAlone(t) ==
  /\ threads[t].outcome = Alone(t).outcome
  /\ threads[t].result = Alone(t).result
\* The cache holds the entry of caller t's call.
HoldsEntryOf(t) ==
  /\ cache_hit(selection_cache, KeyOf(threads[t].args))
  /\ selection_cache[KeyOf(threads[t].args)] = threads[t].result

\* C12 as claimed: two concurrent calls on lists of different URLs each return
\* what they would return alone, and when both have finished the cache holds
\* the entry of each call.
C12_IndependentCallsBothCached ==
  IndependentCallsDone => \A t \in Threads : AsAlone(t) /\ HoldsEntryOf(t)
\* C12, amended: two concurrent calls on lists of different URLs each end as
\* they would alone, under every interleaving, and when both have finished the
\* cache holds the entry of each call that selected at least one image; a
\* call whose candidates were all filtered out, or that raised, leaves none.
C12_IndependentCallsSafe ==
  IndependentCallsDone =>
     \A t \in Threads :
        /\ AsAlone(t)
        /\ IF threads[t].outcome = "ok" /\ threads[t].result.selected_images # <<>>
           THEN HoldsEntryOf(t)
           ELSE ~cache_hit(selection_cache, KeyOf(threads[t].args))
\* Two independent calls that overlapped in time have both finished and both
\* stored a result.
C12_Witness ==
  /\ IndependentCallsDone
  /\ \E t \in Threads : threads[t].intruded
  /\ \A t \in Threads : threads[t].result.selected_images # <<>>
  /\ Cardinality(DOMAIN selection_cache) = 2

ScenarioA ==
  /\ Called
  /\ criteria = DefaultCriteria
  /\ Len(Given) = 1
  /\ Pool[Given[1]].overall_score = 9 /\ Pool[Given[1]].composition_score = 9
  /\ Pool[Given[1]].technical_quality = 9 /\ Pool[Given[1]].clarity_score = 9
  /\ Pool[Given[1]].relevance_score = 9 /\ Pool[Given[1]].confidence_score = 9
  /\ Pool[Given[1]].cost_estimate = 0
  /\ last.args.count = 1
  /\ last.args.strategy = BALANCED
  /\ last.args.search_query = Str(<<>>)
\* The weighted score of the candidate of Scenario A before the confidence
\* multiplier, in 1/2000.
ScenarioWeighted ==
  WeightedSum(criteria, Given[1], get_strategy_weights(criteria, last.args.strategy))

\* C14 as claimed: in Scenario A the candidate is selected with a weighted
\* score of 0.81 and a reported score of 0.729.
C14_ScenarioA_AsStated ==
  ScenarioA =>
     /\ last.outcome = "ok"
     /\ Selected = Given
     /\ 100 * ScenarioWeighted = 81 * 2000
     /\ 1000 * Reported(Given[1]) = 729 * One
\* C14, amended: in Scenario A the candidate is selected with a weighted score
\* of 0.93 (0.4 * 0.9 + 0.3 * 0.9 + 0.2 * 1.0 + 0.1 * 1.0) and a reported
\* score of 0.837 (0.93 * 0.9, no context bonus).
C14_ScenarioA ==
  ScenarioA =>
     /\ last.outcome = "ok"
     /\ Selected = Given
     /\ 100 * ScenarioWeighted = 93 * 2000
     /\ 1000 * Reported(Given[1]) = 837 * One
\* Scenario A was run and returned its candidate.
C14_Witness == ScenarioA /\ Returns /\ Selected = Given /\ Reported(Given[1]) > 0

\* The last call went through the loop of _select_multiple_best: it was
\* computed, for a count of two or more that is below the number of surviving
\* candidates.
GreedyPath ==
  /\ Returns /\ ~last.hit
  /\ ClampCount(Given, last.args.count) >= 2
  /\ ClampCount(Given, last.args.count) < SurvivingCount
\* The images selected before the one at position i.
Before(i) == SubSeq(Selected, 1, i - 1)
\* How often candidate c occurs in the list l.
Occurrences(l, c) == Cardinality({j \in DOMAIN l : l[j] = c})
\* The surviving candidates not yet selected when the image at position i is
\* picked.
RemainingAt(i) ==
  {c \in Surviving :
     Cardinality({j \in DOMAIN Given : Given[j] = c}) > Occurrences(Before(i), c)}
\* The diversity penalty of candidate c against the images selected before
\* position i, in 1/PenaltyOne.
PenaltyAt(c, i) == MaxOf({PenaltyTable[c, Selected[j]] : j \in 1..(i - 1)})
\* base * (1 - penalty * diversity_weight) of candidate c at position i, in
\* 1/(One * PenaltyScale), with the diversity weight of the criteria.
AdjustedAt(c, i) ==
  BaseScore(c) * (PenaltyScale - PenaltyAt(c, i) * criteria.diversity_weight)
\* At position i, s resembles an image already selected, d resembles none, and
\* the adjusted score of s is below the base score of d.
DiversePreferable(s, d, i) ==
  /\ PenaltyAt(s, i) > 0
  /\ PenaltyAt(d, i) = 0
  /\ AdjustedAt(s, i) < BaseScore(d) * PenaltyScale

Explained == last.op = "explain_selection"
\* The selection reasons of the explanation at position i.
ReasonsAt(i) ==
  {last.explanations[i].selection_reasons[j] :
     j \in DOMAIN last.explanations[i].selection_reasons}

\* C16: explain_selection returns one explanation per selected image of the
\* result it is given, in the same order, with rank = position + 1 (the
\* model's positions start at 1) and the final score the result's scores hold
\* for the image URL, 0 when they hold none; it leaves the result and the
\* cache as they were; and it lists each of the four reasons exactly when the
\* value it is about is strictly greater than 0.8.
C16_ExplainsEverySelected ==
  Explained =>
     /\ last.outcome = "ok"
     /\ Len(last.explanations) = Len(last.explained.selected_images)
     /\ \A i \in DOMAIN last.explanations :
          /\ last.explanations[i].candidate = last.explained.selected_images[i]
          /\ last.explanations[i].rank = i
          /\ last.explanations[i].final_score =
               IF UrlOf(last.explained.selected_images[i]) \in DOMAIN last.explained.scores
               THEN last.explained.scores[UrlOf(last.explained.selected_images[i])]
               ELSE 0
          /\ "High quality score" \in ReasonsAt(i)
               <=> calculate_quality_score(last.explained.selected_images[i]) > 160
          /\ "Strong relevance to search query" \in ReasonsAt(i)
               <=> Pool[last.explained.selected_images[i]].relevance_score > 8
          /\ "High analysis confidence" \in ReasonsAt(i)
               <=> Pool[last.explained.selected_images[i]].confidence_score > 8
          /\ "Excellent composition" \in ReasonsAt(i)
               <=> Pool[last.explained.selected_images[i]].composition_score > 8
     /\ last.explained_after = last.explained
     /\ selection_cache = last.cache_before

\* The alternatives of the last result.
Alts == last.result.alternatives
\* The positions of the given list whose candidate survives the filters and
\* equals no selected image.
UnselectedPositions ==
  {j \in DOMAIN Given :
     MeetsCriteria(Given[j]) /\ \A k \in DOMAIN Selected : Pool[Selected[k]] # Pool[Given[j]]}
\* The alternatives are surviving candidates equal to no selected image, in
\* descending order of base score, and no such candidate left out scores
\* higher than one listed.
AlternativesRanked ==
  /\ \A i \in DOMAIN Alts : \E j \in UnselectedPositions : Given[j] = Alts[i]
  /\ \A i, j \in DOMAIN Alts : i < j => BaseScore(Alts[i]) >= BaseScore(Alts[j])
  /\ \A j \in UnselectedPositions :
       \/ Occurrences(Alts, Given[j]) = Cardinality({k \in DOMAIN Given : Given[k] = Given[j]})
       \/ \A i \in DOMAIN Alts : BaseScore(Alts[i]) >= BaseScore(Given[j])

\* C17 as claimed: the alternatives are the highest-ranked surviving
\* candidates not selected, in descending base-score order, and there are
\* min(5, survivors - selected) of them.
C17_AlternativesLength ==
  Returns =>
     /\ AlternativesRanked
     /\ Len(Alts) = Min(5, SurvivingCount - Len(Selected))
\* C17, amended: the alternatives are the highest-ranked surviving candidates
\* that equal no selected image, in descending base-score order, and there are
\* min(5, number of such candidates) of them: a candidate passed twice, or
\* equal in every field to a selected one, is not an alternative.
C17_AlternativesUnselected ==
  Returns =>
     /\ AlternativesRanked
     /\ Len(Alts) = Min(5, Cardinality(UnselectedPositions))
     /\ Len(Alts) <= Min(5, SurvivingCount - Len(Selected))
\* More than five surviving candidates were left unselected, and five of them
\* are the alternatives.
C17_Witness ==
  /\ Returns
  /\ Cardinality(UnselectedPositions) > 5
  /\ Len(Alts) = 5
  /\ Len(Selected) >= 1

\* The last call repeats the marked call, which stored a result, and
\* clear_cache ran between the two and left the cache empty until this call.
RepeatsAfterClear ==
  /\ Called /\ mark.set /\ mark.age >= 1 /\ mark.cleared
  /\ last.args = mark.args
  /\ mark.result.selected_images # <<>>
  /\ last.cache_before = <<>>

\* C18: after clear_cache the cache is empty and get_selection_stats reports
\* cache_size 0; a select_best call that follows it with arguments whose
\* result had been stored misses the cache, computes the selection and the
\* scores as a new selector does and stores the result; and an operation
\* other than clear_cache removes no entry and changes no stored result.
C18_ClearCacheEmpties ==
  /\ (last.op = "clear_cache") =>
        /\ selection_cache = <<>>
        /\ get_selection_stats(selection_cache, criteria).cache_size = 0
  /\ RepeatsAfterClear =>
        /\ last.outcome = "ok" /\ ~last.hit
        /\ last.trace = <<"validate", "cache_lookup", "filter", "score", "select", "store">>
        /\ Selected = Fresh.selected_images
        /\ last.result.scores = Fresh.scores
        /\ cache_hit(selection_cache, KeyOf(last.args))
        /\ selection_cache[KeyOf(last.args)] = last.result
        /\ get_selection_stats(selection_cache, criteria).cache_size = 1
  /\ (last.op # "clear_cache") =>
        \A k \in DOMAIN last.cache_before :
           cache_hit(selection_cache, k) /\ selection_cache[k] = last.cache_before[k]
\* A call stored a result, clear_cache removed it, and the same call was made
\* again.
C18_Witness ==
  /\ RepeatsAfterClear
  /\ ~mark.hit /\ mark.cache_size >= 1
  /\ ~last.hit
  /\ cache_hit(selection_cache, KeyOf(last.args))

\* The criteria with the diversity weight of the strategy of the last call in
\* the place of their own.
WithStrategyDiversityWeight ==
  [criteria EXCEPT
     !.diversity_weight = get_strategy_weights(criteria, last.args.strategy).diversity]
\* The scored candidates of the last call.
Scored ==
  calculate_scores(criteria, apply_filters(criteria, Given), last.args.strategy,
                   last.args.search_query)

\* C19 as claimed: the multi-select loop adjusts the base scores with the
\* diversity weight of the strategy passed to select_best, so the selection is
\* the one the loop makes with that weight.
C19_StrategyDiversityWeight ==
  GreedyPath =>
     Selected = select_multiple_best(WithStrategyDiversityWeight, Scored,
                                     ClampCount(Given, last.args.count))

\* C20 as claimed: for every count above 1, also one that reaches the number
\* of surviving candidates, the first selected image is the top-ranked
\* candidate and every later one has the highest adjusted score, against the
\* images selected before it, among the surviving candidates not yet selected.
C20_GreedySequence ==
  (Returns /\ ~last.hit /\ last.args.count > 1 /\ Selected # <<>>) =>
     /\ Selected[1] = Scored[1][1]
     /\ \A i \in 2..Len(Selected) :
          \A c \in RemainingAt(i) : AdjustedAt(Selected[i], i) >= AdjustedAt(c, i)

\* weight * |a & b| / |a | b| in 1/PenaltyOne, 0 when both sets are empty; the
\* quotient is a whole number for the sets of the candidates.
Jaccard(a, b, weight) ==
  IF a = {} /\ b = {} THEN 0
  ELSE (weight * Cardinality(a \cap b)) \div Cardinality(a \cup b)
\* min(1.0, 0.3 [same scene type] + 0.4 * Jaccard(objects) + 0.3 *
\* Jaccard(colors)) of candidates c and s, in 1/PenaltyOne.
Similarity(c, s) ==
  Min(PenaltyOne,
      (IF Pool[c].scene_type = Pool[s].scene_type THEN (3 * PenaltyOne) \div 10 ELSE 0)
        + Jaccard(LowerSet(Pool[c].objects), LowerSet(Pool[s].objects), (4 * PenaltyOne) \div 10)
        + Jaccard(LowerSet(Pool[c].colors), LowerSet(Pool[s].colors), (3 * PenaltyOne) \div 10))
\* _calculate_diversity_penalty was called directly.
PenaltyProbed == probe.fn = "diversity_penalty"

\* C21: _calculate_diversity_penalty(c, selected) is 0 for an empty list and
\* otherwise the largest similarity of c with a member of selected; it lies
\* between 0 and 1 and does not decrease when a member is added.
C21_PenaltyIsLargestSimilarity ==
  PenaltyProbed =>
     /\ probe.selected = <<>> => probe.value = 0
     /\ probe.selected # <<>> =>
          /\ \E i \in DOMAIN probe.selected :
               probe.value = Similarity(probe.c, probe.selected[i])
          /\ \A i \in DOMAIN probe.selected :
               probe.value >= Similarity(probe.c, probe.selected[i])
     /\ 0 <= probe.value /\ probe.value <= PenaltyOne
     /\ probe.before <= probe.value
\* The penalty against three members is that of the second one, which shares
\* objects and colours with the candidate but not the case of its scene type;
\* the third member did not change it.
C21_Witness ==
  /\ PenaltyProbed
  /\ Len(probe.selected) = 3
  /\ probe.value = Similarity(probe.c, probe.selected[2])
  /\ probe.value > Similarity(probe.c, probe.selected[1])
  /\ probe.value > Similarity(probe.c, probe.selected[3])
  /\ probe.value = (7 * PenaltyOne) \div 10
  /\ probe.before = probe.value
  /\ Lower(Pool[probe.c].scene_type) = Lower(Pool[probe.selected[2]].scene_type)

\* The overall quality scores of the selected images, in tenths.
SelectedOverall == [i \in DOMAIN Selected |-> Pool[Selected[i]].overall_score]
\* n times the sum of the squared deviations of xs from their mean.
SquaredDeviations(xs) ==
  Len(xs) * SumSeq([i \in DOMAIN xs |-> xs[i] * xs[i]]) - SumSeq(xs) * SumSeq(xs)
\* The quality variance the last result reports, a quotient in hundredths.
QualityVariance == last.result.diversity_metrics.quality_variance

\* C22 as claimed: the quality variance of a result is the population
\* variance of the selected overall scores, the squared deviations from the
\* mean divided by the number selected n (here: n * deviations / n^2), and 0
\* for one selected image.
C22_PopulationVariance ==
  (Returns /\ Selected # <<>>) =>
     IF Len(Selected) = 1 THEN QualityVariance.num = 0
     ELSE QualityVariance.num * (Len(Selected) * Len(Selected))
            = SquaredDeviations(SelectedOverall) * QualityVariance.den
\* C22, amended: the quality variance of a result is the sample variance of
\* the selected overall scores, the squared deviations from the mean divided
\* by n - 1, and 0 for one selected image.
C22_SampleVariance ==
  (Returns /\ Selected # <<>>) =>
     IF Len(Selected) = 1 THEN QualityVariance.num = 0
     ELSE QualityVariance.num * (Len(Selected) * (Len(Selected) - 1))
            = SquaredDeviations(SelectedOverall) * QualityVariance.den
\* Three images of different overall scores were selected.
C22_Witness ==
  /\ Returns /\ Len(Selected) = 3
  /\ SquaredDeviations(SelectedOverall) > 0
  /\ QualityVariance.num > 0

\* The quadruple (quality, relevance, diversity, cost) of the strategy of the
\* last call, in tenths.
Quadruple ==
  CASE last.args.strategy = QUALITY_FIRST -> <<6, 2, 1, 1>>
    [] last.args.strategy = RELEVANCE_FIRST -> <<2, 6, 1, 1>>
    [] last.args.strategy = DIVERSITY_FIRST -> <<2, 2, 5, 1>>
    [] last.args.strategy = COST_OPTIMIZED -> <<2, 2, 1, 5>>
    [] last.args.strategy = BALANCED ->
         <<criteria.quality_weight, criteria.relevance_weight,
           criteria.diversity_weight, criteria.cost_weight>>
\* 0.40 * overall + 0.25 * composition + 0.20 * technical_quality + 0.15 *
\* clarity of candidate c, in 1/2000.
QualityComponent(c) ==
  2 * (40 * Pool[c].overall_score + 25 * Pool[c].composition_score
         + 20 * Pool[c].technical_quality + 15 * Pool[c].clarity_score)
\* 1 - min(1, cost / max_cost_per_image) of candidate c, in 1/2000.
CostComponent(c) ==
  2000 - Min(2000, (2000 * Pool[c].cost_estimate) \div criteria.max_cost_per_image)
\* raw * confidence * (1 + context_bonus), clamped to [0, 1], of candidate c
\* in the last call, in 1/(10 * One): the components in 1/2000, the weights
\* and the confidence in tenths, the bonus factor in 1/30.
ClaimedScore(c) ==
  Min(10 * One, Max(0,
    (QualityComponent(c) * Quadruple[1] + 200 * Pool[c].relevance_score * Quadruple[2]
       + 2000 * Quadruple[3] + CostComponent(c) * Quadruple[4])
      * Pool[c].confidence_score
      * (IF ~last.args.search_query.is_none /\ last.args.search_query.text # <<>>
         THEN 30 + calculate_context_bonus(c, last.args.search_query.text)
         ELSE 30)))

\* C23 as claimed: the reported score of every surviving candidate is the
\* clamped product of the weighted sum, the confidence and the bonus factor.
C23_ReportedScoreFormula ==
  Returns => \A c \in Surviving : 10 * Reported(c) = ClaimedScore(c)
\* C23, amended: the score the scoring pass gives every surviving candidate
\* is the clamped product of the weighted sum, the confidence and the bonus
\* factor, and it is the candidate's reported score unless a surviving
\* candidate of another score shares its URL.
C23_ScoreFormula ==
  Returns =>
     \A c \in Surviving :
        /\ 10 * BaseScore(c) = ClaimedScore(c)
        /\ NoUrlClash(c) => 10 * Reported(c) = ClaimedScore(c)
\* A call with a query that matches, under a strategy with fixed weights and
\* under the balanced strategy with weights that do not sum to 1, reported a
\* score between 0 and 1 for a candidate with a cost.
C23_Witness ==
  /\ Returns /\ Truthy(last.args.search_query)
  /\ last.args.strategy = COST_OPTIMIZED
  /\ \E c \in Surviving :
       /\ NoUrlClash(c)
       /\ Pool[c].cost_estimate > 0
       /\ calculate_context_bonus(c, last.args.search_query.text) > 0
       /\ 10 * Reported(c) = ClaimedScore(c)
       /\ 0 < Reported(c) /\ Reported(c) < One

\* _calculate_context_bonus was called directly.
BonusProbed == probe.fn = "context_bonus"
\* The tokens of the query it was given.
QueryTokens == Split(Lower(probe.text))
\* total_matches for the candidate and the query it was given.
TotalMatches ==
  ObjectMatches(probe.c, QueryTokens) + DescriptionMatches(probe.c, QueryTokens)
    + TitleMatches(probe.c, QueryTokens)

\* C24: the context bonus (in 1/30) lies in [0, 0.2]; it is min(0.2,
\* total_matches / (3 * tokens)) for a query with tokens and 0 for a query
\* without any, empty or blank, and then every strategy scores the candidate
\* as it does without a query.
C24_ContextBonusDefined ==
  BonusProbed =>
     /\ 0 <= probe.value /\ probe.value <= 6
     /\ IF QueryTokens = <<>>
        THEN /\ probe.value = 0
             /\ ~DividesByZero(criteria) =>
                  \A s \in SelectionStrategy :
                     calculate_candidate_score(criteria, probe.c, s, Str(probe.text))
                       = calculate_candidate_score(criteria, probe.c, s, NoneQuery)
        ELSE IF 30 * TotalMatches >= 6 * (3 * Len(QueryTokens))
        THEN probe.value = 6
        ELSE probe.value * (3 * Len(QueryTokens)) = 30 * TotalMatches
\* The bonus of a blank query, which is not empty and has no token, is 0.
C24_Witness ==
  /\ BonusProbed
  /\ probe.text # <<>> /\ QueryTokens = <<>>
  /\ probe.value = 0

\* C25 as claimed: a query token counts at most once for the object list, the
\* description and the title each, so the match count is at most three times
\* the number of tokens and the ratio before the cap is at most 1.
C25_MatchesWithinMaximum ==
  BonusProbed =>
     /\ ObjectMatches(probe.c, QueryTokens) <= Len(QueryTokens)
     /\ DescriptionMatches(probe.c, QueryTokens) <= Len(QueryTokens)
     /\ TitleMatches(probe.c, QueryTokens) <= Len(QueryTokens)
     /\ TotalMatches <= 3 * Len(QueryTokens)

\* The candidates of a scored list, best first.
Ranked(scored) == [i \in DOMAIN scored |-> scored[i][1]]
\* The surviving candidates of the last call in input order.
SurvivingInOrder == apply_filters(criteria, Given)
\* The entries of list l that are candidate a or candidate b, in order.
Only(l, a, b) == SelectSeq(l, LAMBDA c : c \in {a, b})
\* The scored list holds every surviving candidate of the last call exactly
\* once with its base score, in non-increasing score order, and candidates
\* of equal score in input order.
IsStableRanking(scored, ranked, survivors) ==
  /\ Len(scored) = SurvivingCount
  /\ \A c \in Refs : Occurrences(ranked, c) = Occurrences(survivors, c)
  /\ \A i \in DOMAIN scored : scored[i][2] = BaseScore(scored[i][1])
  /\ \A i \in DOMAIN scored : \A j \in DOMAIN scored :
       i < j => scored[i][2] >= scored[j][2]
  /\ \A a \in Surviving : \A b \in Surviving :
       BaseScore(a) = BaseScore(b) => Only(ranked, a, b) = Only(survivors, a, b)

\* C26: the ranking of the scoring pass lists every surviving candidate
\* exactly once, in non-increasing score order, and candidates of equal score
\* keep their order of the input list; so with two surviving candidates of
\* different scores, count 2 and the balanced strategy, select_best returns
\* the higher one first whatever the input order.
C26_RankingStable ==
  Returns =>
     /\ IsStableRanking(Scored, Ranked(Scored), SurvivingInOrder)
     /\ (/\ Len(Given) = 2 /\ SurvivingCount = 2
         /\ last.args.count = 2 /\ last.args.strategy = "balanced"
         /\ BaseScore(Given[1]) # BaseScore(Given[2]))
          => Selected = (IF BaseScore(Given[1]) > BaseScore(Given[2])
                         THEN <<Given[1], Given[2]>> ELSE <<Given[2], Given[1]>>)
\* Two different surviving candidates of equal score are selected, with
\* count 2 and the balanced strategy, in the order they were given.
C26_Witness ==
  /\ Returns
  /\ Len(Given) = 2 /\ SurvivingCount = 2 /\ Given[1] # Given[2]
  /\ last.args.count = 2 /\ last.args.strategy = "balanced"
  /\ BaseScore(Given[1]) = BaseScore(Given[2])
  /\ Selected = Given

\* _get_cache_key was called on the argument tuples probe.a and probe.b.
KeysProbed == probe.fn = "cache_key"
\* The image URLs of the candidates of argument tuple a, as a list and as a set.
UrlsOf(a) == [i \in DOMAIN a.candidates |-> UrlOf(a.candidates[i])]
UrlSetOf(a) == {UrlOf(a.candidates[i]) : i \in DOMAIN a.candidates}

\* C27 as claimed: _get_cache_key returns the same key for two candidate
\* lists that hold the same URLs in any order with the same count, strategy
\* and query, and different keys when the count, the strategy, the query or
\* the set of URLs differs.
C27_KeyTellsArgumentsApart ==
  KeysProbed =>
     /\ (/\ SortedStrs(UrlsOf(probe.a)) = SortedStrs(UrlsOf(probe.b))
         /\ probe.a.count = probe.b.count
         /\ probe.a.strategy = probe.b.strategy
         /\ probe.a.search_query = probe.b.search_query)
          => probe.value = probe.other
     /\ (\/ probe.a.count # probe.b.count
         \/ probe.a.strategy # probe.b.strategy
         \/ probe.a.search_query # probe.b.search_query
         \/ UrlSetOf(probe.a) # UrlSetOf(probe.b))
          => probe.value # probe.other

\* What a new selector selects for the arguments of the last call with the
\* count raised by one.
SelectedForOneMore ==
  select_best(<<>>, criteria, Given, last.args.count + 1, last.args.strategy,
              last.args.search_query, 1).result.selected_images
\* List p is a prefix of list l.
IsPrefix(p, l) == Len(p) <= Len(l) /\ SubSeq(l, 1, Len(p)) = p

\* C28 as claimed: for a count k of at least 1 and less than the number of
\* surviving candidates, the images selected for count k are a prefix of the
\* images selected, without cache, for count k + 1 with the same candidates,
\* strategy, query and criteria.
C28_PrefixConsistent ==
  (Returns /\ ~last.hit /\ 1 <= last.args.count /\ last.args.count < SurvivingCount)
     => IsPrefix(Selected, SelectedForOneMore)

\* The key of the last call.
LastKey == KeyOf(last.args)
\* The cache is what it was before the last operation.
CacheUnchanged == selection_cache = last.cache_before
\* The cache is what it was before the last call, with one more entry: the
\* result of the call under the key of the call.
OneEntryAdded ==
  /\ LastKey \notin DOMAIN last.cache_before
  /\ DOMAIN selection_cache = (DOMAIN last.cache_before) \cup {LastKey}
  /\ \A k \in DOMAIN last.cache_before : selection_cache[k] = last.cache_before[k]
  /\ selection_cache[LastKey] = last.result

\* C29 as claimed: clear_cache removes all entries; a select_best call that
\* misses the cache and has at least one surviving candidate adds exactly
\* one entry under its key; a call with an invalid argument, a cache hit and
\* a call whose candidates are all filtered out leave the cache unchanged,
\* and no existing entry is replaced.
C29_CacheChangesInTwoWays ==
  /\ last.op = "clear_cache" => selection_cache = <<>>
  /\ Called =>
       IF Given = <<>> \/ last.args.count <= 0 THEN CacheUnchanged
       ELSE IF LastKey \in DOMAIN last.cache_before THEN CacheUnchanged
       ELSE IF SurvivingCount = 0 THEN CacheUnchanged
       ELSE OneEntryAdded

\* The candidates of the last call have pairwise distinct image URLs.
DistinctUrls ==
  \A i \in DOMAIN Given : \A j \in DOMAIN Given :
     i # j => UrlOf(Given[i]) # UrlOf(Given[j])
\* The keys of the scores of the last result.
ScoreKeys == DOMAIN last.result.scores

\* C30: in a non-empty result that select_best computes for candidates of
\* pairwise distinct URLs, the keys of scores are the URLs of the surviving
\* candidates and of no other candidate, every selected image's URL is a
\* key, and each value is the candidate's base score of the scoring pass,
\* also where the multi-select loop picked it at a lower adjusted score.
C30_ScoresOfSurvivors ==
  (Returns /\ ~last.hit /\ Selected # <<>> /\ DistinctUrls) =>
     /\ ScoreKeys = {UrlOf(c) : c \in Surviving}
     /\ \A i \in DOMAIN Given : ~MeetsCriteria(Given[i]) => UrlOf(Given[i]) \notin ScoreKeys
     /\ \A i \in DOMAIN Selected : UrlOf(Selected[i]) \in ScoreKeys
     /\ \A c \in Surviving : Reported(c) = BaseScore(c)
\* Of three surviving candidates of distinct URLs two are selected, the
\* second at an adjusted score below its base score; the scores report its
\* base score and hold the candidate left out.
C30_Witness ==
  /\ GreedyPath /\ DistinctUrls
  /\ Len(Selected) = 2 /\ SurvivingCount = 3
  /\ AdjustedAt(Selected[2], 2) < BaseScore(Selected[2]) * PenaltyScale
  /\ Reported(Selected[2]) = BaseScore(Selected[2])
  /\ Cardinality(ScoreKeys) = 3

====
